---- MODULE Spec2Model ----
(***************************************************************************)
(* Model of src/src/main.rs: DefParser (parse_xml_file, the directory scan *)
(* of scan_defs_directory, record profiling, extract_references and        *)
(* build_reference_mappings).                                              *)
(*                                                                         *)
(* Rust values are modelled as follows.  String: a TLA+ string.            *)
(* Option<T>: the empty sequence (None) or a one-element sequence (Some).  *)
(* Vec<T>: a sequence (indices are 1-based here, 0-based in the source).   *)
(* HashMap<String,String>: a function whose DOMAIN is the key set.         *)
(* The XML reader (quick_xml) and the directory walker (walkdir) are the   *)
(* environment: every event or entry they can deliver is a choice.         *)
(***************************************************************************)
EXTENDS Integers, Sequences, FiniteSets, TLC

\* ------------------------------------------------------------------ bounds
\* The size of the input of one run: the directory entries the walker yields
\* plus the Start, Empty and Text events the reader delivers.
MaxInput == 6

\* ------------------------------------------------------------ Rust values
None == << >>
Some(x) == << x >>
IsSome(o) == o # << >>
Unwrap(o) == o[1]

Last(s) == s[Len(s)]
Front(s) == SubSeq(s, 1, Len(s) - 1)

EmptyMap == [k \in {} |-> ""]
Map1(k, v) == [x \in {k} |-> v]
Map2(k1, v1, k2, v2) == [x \in {k1, k2} |-> IF x = k1 THEN v1 ELSE v2]

\* String comparison (Ord for String is byte-wise lexicographic): the strings
\* of the model, listed in that order.
StringOrder ==
    << "A", "B", "C", "Code.Comp", "Defs", "P", "ThingDef", "True", "Unknown",
       "comps", "costList", "defName", "description", "label", "li",
       "recipes", "researchPrerequisites", "statBases" >>

Rank(s) == CHOOSE k \in 1..Len(StringOrder) : StringOrder[k] = s

StrLess(a, b) == Rank(a) < Rank(b)

\* ---------------------------------------------------------------- DefElement
\* struct DefElement { name, attributes, content, children, depth }
DefElement(name, attributes, depth) ==
    [name |-> name, attributes |-> attributes, content |-> None,
     children |-> << >>, depth |-> depth]

\* iter().find(|c| c.name == n): the first child so named, as an Option.
RECURSIVE FindChild(_, _)
FindChild(children, n) ==
    IF children = << >> THEN None
    ELSE IF Head(children).name = n THEN Some(Head(children))
    ELSE FindChild(Tail(children), n)

\* children.iter().find(|c| c.name == n).and_then(|c| c.content.as_ref())
ChildContent(element, n) ==
    LET c == FindChild(element.children, n)
    IN  IF IsSome(c) THEN Unwrap(c).content ELSE None

\* attributes.get(k)
AttrGet(element, k) ==
    IF k \in DOMAIN element.attributes THEN Some(element.attributes[k]) ELSE None

\* ------------------------------------------------------------ Record Profiler
ChildNames(element) == {element.children[k].name : k \in DOMAIN element.children}

generate_tags(element, is_abstract, has_parent) ==
    (IF is_abstract THEN << "Abstract" >> ELSE << >>)
    \o (IF has_parent THEN << "Inherits" >> ELSE << >>)
    \o (IF "costList" \in ChildNames(element) THEN << "Craftable" >> ELSE << >>)
    \o (IF "researchPrerequisites" \in ChildNames(element)
        THEN << "Research Required" >> ELSE << >>)
    \o (IF "statBases" \in ChildNames(element) THEN << "Has Stats" >> ELSE << >>)
    \o (IF "comps" \in ChildNames(element) THEN << "Has Components" >> ELSE << >>)
    \o (IF "recipes" \in ChildNames(element) THEN << "Has Recipes" >> ELSE << >>)

RECURSIVE count_elements(_)
count_elements(elements) ==
    IF elements = << >> THEN 0
    ELSE 1 + count_elements(Head(elements).children) + count_elements(Tail(elements))

Max(a, b) == IF a >= b THEN a ELSE b

\* elements.iter().map(..).max().unwrap_or(current_depth)
RECURSIVE calculate_max_depth(_, _)
RECURSIVE MaxOverElements(_, _)
MaxOverElements(elements, current_depth) ==
    LET e == Head(elements)
        here == IF e.children = << >> THEN current_depth + 1
                ELSE calculate_max_depth(e.children, current_depth + 1)
    IN  IF Len(elements) = 1 THEN here
        ELSE Max(here, MaxOverElements(Tail(elements), current_depth))

calculate_max_depth(elements, current_depth) ==
    IF elements = << >> THEN current_depth
    ELSE MaxOverElements(elements, current_depth)

ElementCountLimit == 20
DepthLimit == 4

\* Mutant of calculate_stats: both limits must be passed.
calculate_stats_both(elements) ==
    IF elements = << >> THEN None
    ELSE LET element_count == count_elements(elements)
             max_depth == calculate_max_depth(elements, 0)
         IN  Some([element_count |-> element_count,
                   max_depth |-> max_depth,
                   has_complex_structure |->
                       (element_count > ElementCountLimit /\ max_depth > DepthLimit)])

calculate_stats(elements) ==
    IF elements = << >> THEN None
    ELSE LET element_count == count_elements(elements)
             max_depth == calculate_max_depth(elements, 0)
         IN  Some([element_count |-> element_count,
                   max_depth |-> max_depth,
                   has_complex_structure |->
                       (element_count > ElementCountLimit \/ max_depth > DepthLimit)])

\* Mutant of ResolveDefName: a defName child is preferred to the Name attribute.
ResolveDefNameChildFirst(element) ==
    LET byName == AttrGet(element, "Name")
        byChild == ChildContent(element, "defName")
    IN  IF IsSome(byChild) THEN Unwrap(byChild)
        ELSE IF IsSome(byName) THEN Unwrap(byName)
        ELSE "Unknown"

\* The identity of a record (def_name), from its completed root element.
ResolveDefName(element) ==
    LET byName == AttrGet(element, "Name")
        byChild == ChildContent(element, "defName")
    IN  IF IsSome(byName) THEN Unwrap(byName)
        ELSE IF IsSome(byChild) THEN Unwrap(byChild)
        ELSE "Unknown"

\* --------------------------------------------------------- Reference Extractor
\* One element's own pushes, in the order of the source: tag name, content,
\* attribute values.  HashMap iteration order is unspecified; any order gives
\* the same result after the sort of extract_references.
RECURSIVE SetToSeq(_)
SetToSeq(S) ==
    IF S = {} THEN << >>
    ELSE LET x == CHOOSE y \in S : TRUE IN << x >> \o SetToSeq(S \ {x})

ValuesOf(attributes, keys) ==
    LET ks == SetToSeq(keys) IN [k \in 1..Len(ks) |-> attributes[ks[k]]]

\* Mutant of ElementRefs: the value of every attribute is pushed, Class too.
ElementRefsWithClass(element) ==
    (IF element.name # "defName" /\ element.name # "li"
     THEN << element.name >> ELSE << >>)
    \o (IF IsSome(element.content) /\ element.name # "defName"
        THEN << Unwrap(element.content) >> ELSE << >>)
    \o ValuesOf(element.attributes, DOMAIN element.attributes)

ElementRefs(element) ==
    (IF element.name # "defName" /\ element.name # "li"
     THEN << element.name >> ELSE << >>)
    \o (IF IsSome(element.content) /\ element.name # "defName"
        THEN << Unwrap(element.content) >> ELSE << >>)
    \o ValuesOf(element.attributes, DOMAIN element.attributes \ {"Class"})

ElementCodeRefs(element) ==
    ValuesOf(element.attributes, DOMAIN element.attributes \cap {"Class"})

\* extract_references_recursive: both vectors, in push order.
RECURSIVE extract_references_recursive(_, _)
extract_references_recursive(elements, acc) ==
    IF elements = << >> THEN acc
    ELSE LET e == Head(elements)
             own == [references |-> acc.references \o ElementRefs(e),
                     code_references |-> acc.code_references \o ElementCodeRefs(e)]
             below == extract_references_recursive(e.children, own)
         IN  extract_references_recursive(Tail(elements), below)

\* Vec::sort
RECURSIVE InsertSorted(_, _)
InsertSorted(s, x) ==
    IF s = << >> THEN << x >>
    ELSE IF StrLess(x, Head(s)) THEN << x >> \o s
    ELSE << Head(s) >> \o InsertSorted(Tail(s), x)

RECURSIVE Sort(_)
Sort(s) == IF s = << >> THEN << >> ELSE InsertSorted(Sort(Tail(s)), Head(s))

\* Vec::dedup: consecutive equal elements collapse to the first.
RECURSIVE Dedup(_)
Dedup(s) ==
    IF Len(s) <= 1 THEN s
    ELSE IF s[1] = s[2] THEN Dedup(Tail(s))
    ELSE << s[1] >> \o Dedup(Tail(s))

extract_references(elements) ==
    LET raw == extract_references_recursive(
                   elements, [references |-> << >>, code_references |-> << >>])
    IN  [references |-> Dedup(Sort(raw.references)),
         code_references |-> Dedup(Sort(raw.code_references))]

\* The RimWorldDef built from a completed record root.  file_path, raw_xml and
\* extension are functions of the path and of to_xml and are left out.
MakeRecord(element) ==
    LET parent_name == AttrGet(element, "ParentName")
        abstractAttr == AttrGet(element, "Abstract")
        is_abstract == IF IsSome(abstractAttr) THEN Unwrap(abstractAttr) = "True"
                       ELSE FALSE
    IN  [def_name |-> ResolveDefName(element),
         def_type |-> element.name,
         label |-> ChildContent(element, "label"),
         description |-> ChildContent(element, "description"),
         parent_name |-> parent_name,
         is_abstract |-> is_abstract,
         elements |-> element.children,
         tags |-> generate_tags(element, is_abstract, IsSome(parent_name)),
         stats |-> calculate_stats(element.children),
         references_out |-> << >>,
         references_in |-> << >>,
         code_references |-> << >>]

\* ------------------------------------------------------------------- text
\* A Text event's payload is a sequence of chunks, each a run of whitespace
\* (" ") or a word, with a flag telling whether unescape() succeeds on it.
IsSpace(c) == c = " "

\* e.unescape().unwrap_or_default(): the empty string when unescape fails.
UnescapeOrDefault(raw) == IF raw.unescape_ok THEN raw.chunks ELSE << >>

RECURSIVE TrimStart(_)
TrimStart(cs) ==
    IF cs # << >> /\ IsSpace(Head(cs)) THEN TrimStart(Tail(cs)) ELSE cs

RECURSIVE TrimEnd(_)
TrimEnd(cs) ==
    IF cs # << >> /\ IsSpace(Last(cs)) THEN TrimEnd(Front(cs)) ELSE cs

\* str::trim
Trim(cs) == TrimEnd(TrimStart(cs))

\* to_string(): the chunks written out as one String.
RECURSIVE ChunksToString(_)
ChunksToString(cs) == IF cs = << >> THEN "" ELSE Head(cs) \o ChunksToString(Tail(cs))

\* The text of parse_xml_file's Text arm.
TextOf(raw) == ChunksToString(Trim(UnescapeOrDefault(raw)))

\* ------------------------------------------------------------------ state
VARIABLES
    pc,                 \* where scan_defs_directory stands
    parsed_defs,        \* DefParser.parsed_defs
    def_name_map,       \* DefParser.def_name_map
    file_count, processed_count, error_count, initial_def_count,
    summary,            \* the printed end-of-run summary, an Option
    element_stack,      \* parse_xml_file: element_stack
    in_defs,            \* parse_xml_file: in_defs
    last_result,        \* what the last parse_xml_file call returned
    last_event,         \* history: the reader event that ended that call
    i,                  \* loop index of build_reference_mappings
    reference_count,    \* build_reference_mappings: reference_count
    delivered,          \* how much input the walker and the reader have delivered
    doc_open, doc_roots,      \* the reader's view of the current document
    defs_at_call,       \* history: parsed_defs when parse_xml_file was called
    text_runs,          \* history: per stacked element, the Text payloads it got
    last_popped,        \* history: the element the End arm popped last
    brm_runs            \* history: calls of build_reference_mappings

scanVars == << pc, file_count, processed_count, error_count, initial_def_count,
               summary, last_result, last_event >>
parseVars == << element_stack, in_defs, doc_open, doc_roots,
                defs_at_call, text_runs, last_popped >>
brmVars == << def_name_map, i, reference_count, brm_runs >>
vars == << scanVars, parseVars, brmVars, parsed_defs, delivered >>

\* -------------------------------------------------------------- environment
\* The start tags a document of the model may hold.
StartTags ==
    { [name |-> "Defs", attributes |-> EmptyMap],
      [name |-> "ThingDef", attributes |-> EmptyMap],
      [name |-> "ThingDef", attributes |-> Map1("Name", "A")],
      [name |-> "defName", attributes |-> EmptyMap] }

\* The self-closing tags a document of the model may hold.
EmptyTags ==
    { [name |-> "Defs", attributes |-> EmptyMap],
      [name |-> "ThingDef", attributes |-> Map1("Name", "A")] }

\* The Text payloads a document of the model may hold.
RawTexts ==
    { [unescape_ok |-> TRUE, chunks |-> << " " >>],
      [unescape_ok |-> TRUE, chunks |-> << "A" >>],
      [unescape_ok |-> TRUE, chunks |-> << " ", "B", " " >>],
      [unescape_ok |-> FALSE, chunks |-> << "B" >>] }

\* The document as the reader sees it: the open elements and, per element,
\* its child elements so far (in document order).
DocNode(name) == [name |-> name, kids |-> << >>]

DocAdd(open, roots, node) ==
    IF open = << >>
    THEN [open |-> open, roots |-> Append(roots, node)]
    ELSE [open |-> [open EXCEPT ![Len(open)].kids = Append(@, node)],
          roots |-> roots]

Init ==
    /\ pc = "walk"
    /\ parsed_defs = << >>
    /\ def_name_map = EmptyMap
    /\ file_count = 0 /\ processed_count = 0 /\ error_count = 0
    /\ initial_def_count = 0
    /\ summary = None
    /\ element_stack = << >>
    /\ in_defs = FALSE
    /\ last_result = "none"
    /\ last_event = "none"
    /\ i = 1
    /\ reference_count = 0
    /\ delivered = 0
    /\ doc_open = << >> /\ doc_roots = << >>
    /\ defs_at_call = << >>
    /\ text_runs = << >>
    /\ last_popped = None
    /\ brm_runs = 0

\* --------------------------------------------------------- scan_defs_directory
\* The locals and the result of a finished parse_xml_file call are dropped;
\* they are kept only in the state the call returned to.
DropLocals ==
    /\ element_stack' = << >>
    /\ in_defs' = FALSE
    /\ doc_open' = << >> /\ doc_roots' = << >>
    /\ text_runs' = << >>
    /\ defs_at_call' = << >>
    /\ last_popped' = None
    /\ last_result' = "none"
    /\ last_event' = "none"

\* The walker yields an .xml file: parse_xml_file is called.  read_to_string
\* fails (the call returns Err at once) or the event loop starts.
WalkXmlFile(readable) ==
    /\ pc = "walk"
    /\ delivered < MaxInput
    /\ delivered' = delivered + 1
    /\ file_count' = file_count + 1
    /\ initial_def_count' = Len(parsed_defs)
    /\ defs_at_call' = parsed_defs
    /\ element_stack' = << >>
    /\ in_defs' = FALSE
    /\ doc_open' = << >> /\ doc_roots' = << >>
    /\ text_runs' = << >>
    /\ last_popped' = None
    /\ last_event' = "none"
    /\ IF readable
       THEN /\ pc' = "parse"
            /\ last_result' = "none"
            /\ error_count' = error_count
       ELSE /\ pc' = "walk"
            /\ last_result' = "Err"
            /\ error_count' = error_count + 1
    /\ UNCHANGED << processed_count, summary, brmVars, parsed_defs >>

\* The walker yields a directory or a file that is not .xml: the loop body
\* does nothing.
WalkSkip ==
    /\ pc = "walk"
    /\ UNCHANGED vars

\* The walker yields an error: `entry?` returns it from scan_defs_directory.
WalkError ==
    /\ pc = "walk"
    /\ delivered < MaxInput
    /\ delivered' = delivered + 1
    /\ pc' = "aborted"
    /\ DropLocals
    /\ UNCHANGED << file_count, processed_count, error_count, initial_def_count,
                    summary, brmVars, parsed_defs >>

\* The walk is over: the summary is printed and build_reference_mappings called.
WalkEnd ==
    /\ pc = "walk"
    /\ summary' = Some([files_found |-> file_count,
                        files_processed |-> processed_count,
                        errors |-> error_count,
                        total_definitions |-> Len(parsed_defs)])
    /\ pc' = "index"
    /\ DropLocals
    /\ UNCHANGED << file_count, processed_count, error_count, initial_def_count,
                    brmVars, parsed_defs, delivered >>

\* ------------------------------------------------------------- parse_xml_file
\* Mutant of StartArm: depth counts from the record's direct children.
StartArmDepthFromChildren(stack, inDefs, tag) ==
    IF tag.name = "Defs"
    THEN [stack |-> stack, in_defs |-> TRUE, pushed |-> FALSE]
    ELSE IF inDefs /\ stack # << >>
    THEN [stack |-> Append(stack, DefElement(tag.name, tag.attributes, Len(stack) - 1)),
          in_defs |-> inDefs, pushed |-> TRUE]
    ELSE IF inDefs
    THEN [stack |-> Append(stack, DefElement(tag.name, tag.attributes, 0)),
          in_defs |-> inDefs, pushed |-> TRUE]
    ELSE [stack |-> stack, in_defs |-> inDefs, pushed |-> FALSE]

\* The Start arm: what it does to (element_stack, in_defs).
StartArm(stack, inDefs, tag) ==
    IF tag.name = "Defs"
    THEN [stack |-> stack, in_defs |-> TRUE, pushed |-> FALSE]
    ELSE IF inDefs /\ stack # << >>
    THEN [stack |-> Append(stack, DefElement(tag.name, tag.attributes, Len(stack))),
          in_defs |-> inDefs, pushed |-> TRUE]
    ELSE IF inDefs
    THEN [stack |-> Append(stack, DefElement(tag.name, tag.attributes, 0)),
          in_defs |-> inDefs, pushed |-> TRUE]
    ELSE [stack |-> stack, in_defs |-> inDefs, pushed |-> FALSE]

ReadStart(tag) ==
    /\ pc = "parse"
    /\ delivered < MaxInput
    /\ delivered' = delivered + 1
    /\ doc_open' = Append(doc_open, DocNode(tag.name))
    /\ LET r == StartArm(element_stack, in_defs, tag)
       IN  /\ element_stack' = r.stack
           /\ in_defs' = r.in_defs
           /\ text_runs' = IF r.pushed THEN Append(text_runs, << >>) ELSE text_runs
    /\ UNCHANGED << scanVars, doc_roots, defs_at_call, last_popped, brmVars, parsed_defs >>

\* The End arm: what it does to (element_stack, in_defs, parsed_defs).
EndArm(stack, inDefs, defs, name) ==
    IF name = "Defs"
    THEN [stack |-> stack, in_defs |-> FALSE, defs |-> defs, popped |-> FALSE]
    ELSE IF inDefs /\ stack # << >>
    THEN LET element == Last(stack)
             rest == Front(stack)
         IN  IF rest = << >>
             THEN [stack |-> rest, in_defs |-> inDefs,
                   defs |-> Append(defs, MakeRecord(element)), popped |-> TRUE]
             ELSE [stack |-> [rest EXCEPT ![Len(rest)].children = Append(@, element)],
                   in_defs |-> inDefs, defs |-> defs, popped |-> TRUE]
    ELSE [stack |-> stack, in_defs |-> inDefs, defs |-> defs, popped |-> FALSE]

\* The reader checks end names: an End event closes the innermost open tag.
ReadEnd ==
    /\ pc = "parse"
    /\ doc_open # << >>
    /\ LET closed == Last(doc_open)
           d == DocAdd(Front(doc_open), doc_roots, closed)
           r == EndArm(element_stack, in_defs, parsed_defs, closed.name)
       IN  /\ doc_open' = d.open
           /\ doc_roots' = d.roots
           /\ element_stack' = r.stack
           /\ in_defs' = r.in_defs
           /\ parsed_defs' = r.defs
           /\ text_runs' = IF r.popped THEN Front(text_runs) ELSE text_runs
           /\ last_popped' =
                IF r.popped
                THEN Some([element |-> Last(element_stack),
                           runs |-> Last(text_runs),
                           as_record |-> Len(element_stack) = 1])
                ELSE last_popped
    /\ UNCHANGED << scanVars, defs_at_call, brmVars, delivered >>

\* Mutant of TextArm: the first non-empty text run is kept.
TextArmFirstWins(stack, raw) ==
    LET text == TextOf(raw)
    IN  IF text # "" /\ stack # << >> /\ Last(stack).content = None
        THEN [stack EXCEPT ![Len(stack)].content = Some(text)]
        ELSE stack

\* The Text arm: what it does to element_stack.
TextArm(stack, raw) ==
    LET text == TextOf(raw)
    IN  IF text # "" /\ stack # << >>
        THEN [stack EXCEPT ![Len(stack)].content = Some(text)]
        ELSE stack

ReadText(raw) ==
    /\ pc = "parse"
    /\ delivered < MaxInput
    /\ delivered' = delivered + 1
    /\ element_stack' = TextArm(element_stack, raw)
    /\ text_runs' = IF text_runs = << >> THEN text_runs
                    ELSE [text_runs EXCEPT ![Len(text_runs)] = Append(@, raw)]
    /\ UNCHANGED << scanVars, in_defs, doc_open, doc_roots, defs_at_call,
                    last_popped, brmVars, parsed_defs >>

\* Mutant of EmptyArm: a self-closing tag is handled as a start tag followed
\* by its end tag.
EmptyArmAsStartEnd(stack, inDefs, defs, tag) ==
    LET s == StartArm(stack, inDefs, tag)
        e == EndArm(s.stack, s.in_defs, defs, tag.name)
    IN  [stack |-> e.stack, in_defs |-> e.in_defs, defs |-> e.defs]

\* An Empty event (a self-closing tag) falls to the `_ => {}` arm: what the
\* arm does to (element_stack, in_defs, parsed_defs).
EmptyArm(stack, inDefs, defs, tag) ==
    [stack |-> stack, in_defs |-> inDefs, defs |-> defs]

ReadEmpty(tag) ==
    /\ pc = "parse"
    /\ delivered < MaxInput
    /\ delivered' = delivered + 1
    /\ LET d == DocAdd(doc_open, doc_roots, DocNode(tag.name))
       IN  doc_open' = d.open /\ doc_roots' = d.roots
    /\ LET r == EmptyArm(element_stack, in_defs, parsed_defs, tag)
       IN  /\ element_stack' = r.stack
           /\ in_defs' = r.in_defs
           /\ parsed_defs' = r.defs
    /\ UNCHANGED << scanVars, defs_at_call, text_runs, last_popped, brmVars >>

\* Comment, CData, Decl, PI and DocType events fall to the `_ => {}` arm.
ReadOther ==
    /\ pc = "parse"
    /\ UNCHANGED vars

\* Mutant of ReadErr: the Err arm of the caller does not count the error.
ReadErrUncounted ==
    /\ pc = "parse"
    /\ last_result' = "Err"
    /\ last_event' = "Err"
    /\ pc' = "walk"
    /\ UNCHANGED << file_count, processed_count, error_count, initial_def_count,
                    summary, delivered, parseVars, brmVars, parsed_defs >>

\* Mutant of EofArm: end of input inside an open element is an error.
EofArmStrict(stack, defs) ==
    [result |-> IF stack = << >> THEN "Ok" ELSE "Err", defs |-> defs]

\* The Eof arm breaks the loop and the function returns Ok(()): what the call
\* returns and what it leaves in parsed_defs, whatever the stack holds.
EofArm(stack, defs) == [result |-> "Ok", defs |-> defs]

\* Eof: the call returns and the caller counts the file by the result.
ReadEof ==
    /\ pc = "parse"
    /\ LET r == EofArm(element_stack, parsed_defs)
       IN  /\ last_result' = r.result
           /\ parsed_defs' = r.defs
           /\ processed_count' =
                IF r.result = "Ok" THEN processed_count + 1 ELSE processed_count
           /\ error_count' =
                IF r.result = "Ok" THEN error_count ELSE error_count + 1
    /\ last_event' = "Eof"
    /\ pc' = "walk"
    /\ UNCHANGED << file_count, initial_def_count, summary, delivered,
                    parseVars, brmVars >>

\* The reader reports a markup error: the call returns Err and the caller
\* counts the error.
ReadErr ==
    /\ pc = "parse"
    /\ last_result' = "Err"
    /\ last_event' = "Err"
    /\ error_count' = error_count + 1
    /\ pc' = "walk"
    /\ UNCHANGED << file_count, processed_count, initial_def_count, summary, delivered,
                    parseVars, brmVars, parsed_defs >>

\* ---------------------------------------------------- build_reference_mappings
\* def_name_map.entry(key).or_default().push(idx)
MapPush(map, key, idx) ==
    IF key \in DOMAIN map
    THEN [map EXCEPT ![key] = Append(@, idx)]
    ELSE [k \in DOMAIN map \cup {key} |-> IF k = key THEN << idx >> ELSE map[k]]

\* First pass: the identity index, in record order.
RECURSIVE IndexDefs(_, _, _)
IndexDefs(map, defs, idx) ==
    IF idx > Len(defs) THEN map
    ELSE IndexDefs(MapPush(map, defs[idx].def_name, idx), defs, idx + 1)

\* Mutant of ValidRefs: the self-reference test is left out.
ValidRefsKeepSelf(references, map, def_name) ==
    SelectSeq(references, LAMBDA ref_name : ref_name \in DOMAIN map)

\* references.into_iter().filter(..).collect()
ValidRefs(references, map, def_name) ==
    SelectSeq(references, LAMBDA ref_name : ref_name \in DOMAIN map /\ ref_name # def_name)

\* Mutant of PushIn: only the first record of the name gets the back-edge.
PushInFirstOnly(defs, ref_indices, name) ==
    IF ref_indices = << >> THEN defs
    ELSE [defs EXCEPT ![Head(ref_indices)].references_in = Append(@, name)]

\* for &ref_idx in ref_indices { parsed_defs[ref_idx].references_in.push(name) }
RECURSIVE PushIn(_, _, _)
PushIn(defs, ref_indices, name) ==
    IF ref_indices = << >> THEN defs
    ELSE PushIn([defs EXCEPT ![Head(ref_indices)].references_in = Append(@, name)],
                Tail(ref_indices), name)

\* for ref_name in valid_refs { if let Some(ref_indices) = map.get(ref_name) {..} }
RECURSIVE PushIncoming(_, _, _, _)
PushIncoming(defs, map, valid_refs, name) ==
    IF valid_refs = << >> THEN defs
    ELSE LET ref_name == Head(valid_refs)
             next == IF ref_name \in DOMAIN map
                     THEN PushIn(defs, map[ref_name], name) ELSE defs
         IN  PushIncoming(next, map, Tail(valid_refs), name)

\* One iteration of the second pass, for record idx.
RefsIteration(defs, map, idx) ==
    LET def_name == defs[idx].def_name
        ex == extract_references(defs[idx].elements)
        valid_refs == ValidRefs(ex.references, map, def_name)
        own == [defs EXCEPT ![idx].references_out = valid_refs,
                            ![idx].code_references = ex.code_references]
    IN  [defs |-> PushIncoming(own, map, valid_refs, def_name),
         found |-> Len(valid_refs)]

\* Mutant of PushInOnce: the contains test is left out.
RECURSIVE PushInAlways(_, _, _)
PushInAlways(defs, parent_indices, child_name) ==
    IF parent_indices = << >> THEN defs
    ELSE PushInAlways([defs EXCEPT ![Head(parent_indices)].references_in =
                           Append(@, child_name)],
                      Tail(parent_indices), child_name)

\* if !references_in.contains(&child_name) { references_in.push(child_name) }
RECURSIVE PushInOnce(_, _, _)
PushInOnce(defs, parent_indices, child_name) ==
    IF parent_indices = << >> THEN defs
    ELSE LET p == Head(parent_indices)
             has == \E k \in DOMAIN defs[p].references_in :
                        defs[p].references_in[k] = child_name
             next == IF has THEN defs
                     ELSE [defs EXCEPT ![p].references_in = Append(@, child_name)]
         IN  PushInOnce(next, Tail(parent_indices), child_name)

\* Mutant of ParentIteration: a record that names itself as parent is skipped.
ParentIterationSkipSelf(defs, map, idx) ==
    IF /\ IsSome(defs[idx].parent_name)
       /\ Unwrap(defs[idx].parent_name) \in DOMAIN map
       /\ Unwrap(defs[idx].parent_name) # defs[idx].def_name
    THEN PushInOnce(defs, map[Unwrap(defs[idx].parent_name)], defs[idx].def_name)
    ELSE defs

\* One iteration of the parent pass, for record idx.
ParentIteration(defs, map, idx) ==
    IF IsSome(defs[idx].parent_name) /\ Unwrap(defs[idx].parent_name) \in DOMAIN map
    THEN PushInOnce(defs, map[Unwrap(defs[idx].parent_name)], defs[idx].def_name)
    ELSE defs

BrmIndex ==
    /\ pc = "index"
    /\ brm_runs' = brm_runs + 1
    /\ def_name_map' = IndexDefs(def_name_map, parsed_defs, 1)
    /\ reference_count' = 0
    /\ i' = 1
    /\ pc' = "refs"
    /\ UNCHANGED << file_count, processed_count, error_count, initial_def_count,
                    summary, last_result, last_event, delivered, parseVars, parsed_defs >>

BrmRefs ==
    /\ pc = "refs"
    /\ i <= Len(parsed_defs)
    /\ LET r == RefsIteration(parsed_defs, def_name_map, i)
       IN  /\ parsed_defs' = r.defs
           /\ reference_count' = reference_count + r.found
    /\ i' = i + 1
    /\ UNCHANGED << scanVars, parseVars, def_name_map, brm_runs, delivered >>

BrmRefsEnd ==
    /\ pc = "refs"
    /\ i > Len(parsed_defs)
    /\ i' = 1
    /\ pc' = "parents"
    /\ UNCHANGED << file_count, processed_count, error_count, initial_def_count,
                    summary, last_result, last_event, delivered, parseVars, def_name_map,
                    reference_count, brm_runs, parsed_defs >>

BrmParents ==
    /\ pc = "parents"
    /\ i <= Len(parsed_defs)
    /\ parsed_defs' = ParentIteration(parsed_defs, def_name_map, i)
    /\ i' = i + 1
    /\ UNCHANGED << scanVars, parseVars, def_name_map, reference_count, brm_runs,
                    delivered >>

\* Mutant of BrmEnd: build_reference_mappings is called a second time.
BrmEndRunsAgain ==
    /\ pc = "parents"
    /\ i > Len(parsed_defs)
    /\ pc' = IF brm_runs < 2 THEN "index" ELSE "done"
    /\ UNCHANGED << file_count, processed_count, error_count, initial_def_count,
                    summary, last_result, last_event, delivered, parseVars, brmVars, parsed_defs >>

\* The parent pass is over: build_reference_mappings and then
\* scan_defs_directory return.
BrmEnd ==
    /\ pc = "parents"
    /\ i > Len(parsed_defs)
    /\ pc' = "done"
    /\ UNCHANGED << file_count, processed_count, error_count, initial_def_count,
                    summary, last_result, last_event, delivered, parseVars, brmVars, parsed_defs >>

\* ------------------------------------------------------------ specification
Next ==
    \/ \E readable \in BOOLEAN : WalkXmlFile(readable)
    \/ WalkSkip
    \/ WalkError
    \/ WalkEnd
    \/ \E tag \in StartTags : ReadStart(tag)
    \/ ReadEnd
    \/ \E raw \in RawTexts : ReadText(raw)
    \/ \E tag \in EmptyTags : ReadEmpty(tag)
    \/ ReadOther
    \/ ReadEof
    \/ ReadErr
    \/ BrmIndex
    \/ BrmRefs
    \/ BrmRefsEnd
    \/ BrmParents
    \/ BrmEnd

Spec == Init /\ [][Next]_vars

\* ------------------------------------------- the resolver over given records
\* The records build_reference_mappings is given are drawn from a bounded set
\* of completed record roots, each profiled by MakeRecord as parse_xml_file
\* does, at most MaxRecords of them.
MaxRecords == 3

Elem(name, attributes, content, children, depth) ==
    [name |-> name, attributes |-> attributes, content |-> content,
     children |-> children, depth |-> depth]

\* Record bodies: the children of a record root.
Bodies ==
    { << >>,
      << Elem("li", EmptyMap, Some("A"), << >>, 1) >>,
      << Elem("B", Map2("ref", "A", "kind", "C"), None, << >>, 1) >>,
      << Elem("li", Map1("Class", "Code.Comp"), None,
              << Elem("A", EmptyMap, Some("C"), << >>, 2) >>, 1) >> }

\* How a record root states its identity: a Name attribute, or a defName child.
RootElements ==
    { Elem("ThingDef", attrs, None, body, 0) :
          attrs \in { Map1("Name", "A"), Map1("Name", "B"),
                      Map2("Name", "A", "ParentName", "A"),
                      Map2("Name", "B", "ParentName", "A") },
          body \in Bodies }
    \cup
    { Elem("ThingDef", attrs, None,
           << Elem("defName", EmptyMap, Some("A"), << >>, 1) >> \o body, 0) :
          attrs \in { EmptyMap, Map1("ParentName", "A") },
          body \in Bodies }

RecordInputs == { MakeRecord(root) : root \in RootElements }

SeqsUpTo(S, n) == UNION { [1..k -> S] : k \in 0..n }

\* The state in which scan_defs_directory calls build_reference_mappings,
\* after one file that held the given records.
InitRefs ==
    /\ pc = "index"
    /\ parsed_defs \in SeqsUpTo(RecordInputs, MaxRecords)
    /\ def_name_map = EmptyMap
    /\ file_count = 1 /\ processed_count = 1 /\ error_count = 0
    /\ initial_def_count = 0
    /\ summary = Some([files_found |-> 1, files_processed |-> 1, errors |-> 0,
                       total_definitions |-> Len(parsed_defs)])
    /\ element_stack = << >>
    /\ in_defs = FALSE
    /\ last_result = "none"
    /\ last_event = "none"
    /\ i = 1
    /\ reference_count = 0
    /\ delivered = MaxInput
    /\ doc_open = << >> /\ doc_roots = << >>
    /\ defs_at_call = << >>
    /\ text_runs = << >>
    /\ last_popped = None
    /\ brm_runs = 0

NextRefs ==
    \/ BrmIndex
    \/ BrmRefs
    \/ BrmRefsEnd
    \/ BrmParents
    \/ BrmEnd

SpecRefs == InitRefs /\ [][NextRefs]_vars

\* ------------------------------------------------------------------ claims
InSeq(x, s) == \E k \in DOMAIN s : s[k] = x
SeqSet(s) == { s[k] : k \in DOMAIN s }
Count(s, x) == Cardinality({ k \in DOMAIN s : s[k] = x })
Identities == { parsed_defs[k].def_name : k \in DOMAIN parsed_defs }

\* C1: once build_reference_mappings has run, for any records a and b, if
\* a.references_out contains b's identity then b.references_in contains a's
\* identity; every record sharing b's identity is reached.
C1_OutImpliesIn ==
    pc = "done" =>
        \A a, b \in DOMAIN parsed_defs :
            InSeq(parsed_defs[b].def_name, parsed_defs[a].references_out)
                => InSeq(parsed_defs[a].def_name, parsed_defs[b].references_in)

\* C1 witness: a reference to an identity that two records share has been
\* resolved.
C1_Witness ==
    /\ pc = "done"
    /\ \E a, b1, b2 \in DOMAIN parsed_defs :
        /\ b1 # b2 /\ a # b1 /\ a # b2
        /\ parsed_defs[b1].def_name = parsed_defs[b2].def_name
        /\ InSeq(parsed_defs[b1].def_name, parsed_defs[a].references_out)

\* C2: once build_reference_mappings has run, each record's references_out is
\* exactly the set of its extracted candidate tokens that are the identity of
\* some record of the run and differ from the record's own identity.
C2_OutIsValidCandidates ==
    pc = "done" =>
        \A r \in DOMAIN parsed_defs :
            SeqSet(parsed_defs[r].references_out)
                = { t \in SeqSet(extract_references(parsed_defs[r].elements).references) :
                        t \in Identities /\ t # parsed_defs[r].def_name }

\* C2 witness: a record whose candidates hold its own identity, another
\* record's identity and a token that is no identity has been resolved.
C2_Witness ==
    /\ pc = "done"
    /\ \E r \in DOMAIN parsed_defs :
        LET cand == SeqSet(extract_references(parsed_defs[r].elements).references)
        IN  /\ parsed_defs[r].def_name \in cand
            /\ \E t \in cand : t \in Identities /\ t # parsed_defs[r].def_name
            /\ \E t \in cand : t \notin Identities

\* Record c declares record p's identity as its ParentName.
IsChildOf(c, p) ==
    parsed_defs[c].parent_name = Some(parsed_defs[p].def_name)

\* The records named n whose references_out holds p's identity.
BodyReferrers(n, p) ==
    { r \in DOMAIN parsed_defs :
        /\ parsed_defs[r].def_name = n
        /\ InSeq(parsed_defs[p].def_name, parsed_defs[r].references_out) }

\* C3 as stated: once build_reference_mappings has run, a parent's
\* references_in holds the identity of each record declaring it as ParentName
\* exactly once, whatever other references the records carry.
C3_ChildExactlyOnce ==
    pc = "done" =>
        \A p, c \in DOMAIN parsed_defs :
            IsChildOf(c, p)
                => Count(parsed_defs[p].references_in, parsed_defs[c].def_name) = 1

\* C3 amended: the parent's references_in holds the child's identity once per
\* record of that identity whose references_out holds the parent's identity,
\* and exactly once when there is no such record (so exactly once unless two
\* or more records sharing the child's identity reference the parent in
\* their bodies).
C3_ChildOncePerReferrer ==
    pc = "done" =>
        \A p, c \in DOMAIN parsed_defs :
            IsChildOf(c, p)
                => Count(parsed_defs[p].references_in, parsed_defs[c].def_name)
                     = Max(1, Cardinality(BodyReferrers(parsed_defs[c].def_name, p)))

\* C3 witness: two different records declare the same parent and the parent
\* pass has run over both.
C3_Witness ==
    /\ pc = "done"
    /\ \E p, c1, c2 \in DOMAIN parsed_defs :
        /\ c1 # c2 /\ IsChildOf(c1, p) /\ IsChildOf(c2, p)
        /\ parsed_defs[c1].def_name = parsed_defs[c2].def_name
        /\ Count(parsed_defs[p].references_in, parsed_defs[c1].def_name) = 1

\* parse_xml_file has just returned, with the given result.
Returned(result) == pc = "walk" /\ last_result = result

\* The records the current (or just finished) parse_xml_file call appended.
Appended == SubSeq(parsed_defs, Len(defs_at_call) + 1, Len(parsed_defs))

\* C4: when parse_xml_file fails on a file, parsed_defs after the call equals
\* parsed_defs before it (the failing file contributes no record).
C4_FailedFileAddsNothing ==
    Returned("Err") => parsed_defs = defs_at_call

BrmPhases == { "refs", "parents", "done" }

NoReferences(rec) ==
    /\ rec.references_out = << >>
    /\ rec.references_in = << >>
    /\ rec.code_references = << >>

\* A record without the three fields the resolver writes.
Unresolved(rec) ==
    [rec EXCEPT !.references_out = << >>, !.references_in = << >>,
                !.code_references = << >>]

SameRecords(before, after) ==
    /\ Len(before) = Len(after)
    /\ \A k \in DOMAIN before : Unresolved(before[k]) = Unresolved(after[k])

\* What C5 says of the order of the run: until build_reference_mappings
\* starts no record carries a reference; it starts at most once; once it has
\* started the run parses no further file and parsed_defs keeps its records.
C5_Order ==
    /\ [](brm_runs = 0 => \A k \in DOMAIN parsed_defs : NoReferences(parsed_defs[k]))
    /\ [](brm_runs >= 1 => pc \in BrmPhases)
    /\ [](brm_runs <= 1)
    /\ [][brm_runs >= 1 => SameRecords(parsed_defs, parsed_defs')]_vars

RECURSIVE ElementTrees(_)
ElementTrees(elements) ==
    [k \in DOMAIN elements |->
        [name |-> elements[k].name, kids |-> ElementTrees(elements[k].children)]]

RecordTree(rec) == [name |-> rec.def_type, kids |-> ElementTrees(rec.elements)]

\* The file just parsed was well-formed: every tag closed, one root element,
\* the Defs container.
WellFormedFile ==
    /\ Returned("Ok")
    /\ doc_open = << >>
    /\ Len(doc_roots) = 1
    /\ doc_roots[1].name = "Defs"

\* C6: for a well-formed file, parse_xml_file appends one record per direct
\* child element of the Defs container, in document order, and each record's
\* elements list their child elements in document order.
C6_OneRecordPerChild ==
    WellFormedFile =>
        /\ SubSeq(parsed_defs, 1, Len(defs_at_call)) = defs_at_call
        /\ [k \in DOMAIN Appended |-> RecordTree(Appended[k])] = doc_roots[1].kids

\* The contents of the root's defName children that have a content.
DefNameContents(root) ==
    { Unwrap(root.children[k].content) :
        k \in { j \in DOMAIN root.children :
                  root.children[j].name = "defName" /\ IsSome(root.children[j].content) } }

\* The End arm has just turned the popped root into the last record.
RecordJustMade == IsSome(last_popped) /\ Unwrap(last_popped).as_record

LastRoot == Unwrap(last_popped).element

\* C7 as stated: the identity is the Name attribute when present, otherwise
\* the text content of a direct child named defName, otherwise "Unknown".
C7_NameThenAnyDefName ==
    RecordJustMade =>
        LET id == Last(parsed_defs).def_name
        IN  IF "Name" \in DOMAIN LastRoot.attributes
            THEN id = LastRoot.attributes["Name"]
            ELSE IF DefNameContents(LastRoot) # {}
            THEN id \in DefNameContents(LastRoot)
            ELSE id = "Unknown"

\* The first direct child named defName, as an Option of its position.
FirstDefName(root) ==
    LET ks == { k \in DOMAIN root.children : root.children[k].name = "defName" }
    IN  IF ks = {} THEN None ELSE Some(CHOOSE k \in ks : \A j \in ks : k <= j)

\* C7 amended: the identity is the Name attribute when present, otherwise the
\* text content of the first direct child named defName when that child has
\* one, otherwise "Unknown".
C7_NameThenFirstDefName ==
    RecordJustMade =>
        LET id == Last(parsed_defs).def_name
            first == FirstDefName(LastRoot)
        IN  IF "Name" \in DOMAIN LastRoot.attributes
            THEN id = LastRoot.attributes["Name"]
            ELSE IF IsSome(first) /\ IsSome(LastRoot.children[Unwrap(first)].content)
            THEN id = Unwrap(LastRoot.children[Unwrap(first)].content)
            ELSE id = "Unknown"

\* C7 witness: a record was made from a root that carries a Name attribute
\* and a defName child whose text differs from it.
C7_Witness ==
    /\ RecordJustMade
    /\ "Name" \in DOMAIN LastRoot.attributes
    /\ DefNameContents(LastRoot) # {}
    /\ LastRoot.attributes["Name"] \notin DefNameContents(LastRoot)
    /\ Last(parsed_defs).def_name = LastRoot.attributes["Name"]

\* Every element of the list has depth d, its children d + 1, and so on.
RECURSIVE DepthsFrom(_, _)
DepthsFrom(elements, d) ==
    \A k \in DOMAIN elements :
        /\ elements[k].depth = d
        /\ DepthsFrom(elements[k].children, d + 1)

\* C8 as stated: in every record, depth is 0 for the record's direct children
\* and one more per nesting level below them.
C8_DepthFromZero ==
    \A r \in DOMAIN parsed_defs : DepthsFrom(parsed_defs[r].elements, 0)

\* C8 amended: in every record, depth is 1 for the record's direct children
\* (0 is the depth of the record root itself) and one more per nesting level
\* below them, wherever the record sits in the file.
C8_DepthFromOne ==
    \A r \in DOMAIN parsed_defs : DepthsFrom(parsed_defs[r].elements, 1)

\* C8 witness: the second record of a file has a child that has a child.
C8_Witness ==
    /\ pc = "parse"
    /\ Len(Appended) >= 2
    /\ \E k \in DOMAIN Last(parsed_defs).elements :
           Last(parsed_defs).elements[k].children # << >>

\* The texts of the runs that are not empty once unescaped and trimmed.
NonEmptyTexts(runs) ==
    SelectSeq([k \in DOMAIN runs |-> TextOf(runs[k])], LAMBDA t : t # "")

\* The content an element must have after the given runs.
ContentAfter(runs) ==
    IF NonEmptyTexts(runs) = << >> THEN None ELSE Some(Last(NonEmptyTexts(runs)))

\* C9: the content of an element is the trimmed text of the last non-empty
\* text run it received while it was the top of the stack (none if it got no
\* such run); whitespace-only runs never change it.  It holds while the
\* element is on the stack and when it is popped.
C9_LastTextWins ==
    /\ \A k \in DOMAIN element_stack :
           element_stack[k].content = ContentAfter(text_runs[k])
    /\ IsSome(last_popped) =>
           Unwrap(last_popped).element.content = ContentAfter(Unwrap(last_popped).runs)

\* C9 witness: a popped element got two different non-empty runs and has a
\* child element.
C9_Witness ==
    /\ IsSome(last_popped)
    /\ Unwrap(last_popped).element.children # << >>
    /\ Len(NonEmptyTexts(Unwrap(last_popped).runs)) >= 2
    /\ NonEmptyTexts(Unwrap(last_popped).runs)[1]
         # Last(NonEmptyTexts(Unwrap(last_popped).runs))

\* The printed summary adds up and counts the records of parsed_defs.
SummaryAddsUp ==
    IsSome(summary) =>
        /\ Unwrap(summary).files_found
             = Unwrap(summary).files_processed + Unwrap(summary).errors
        /\ Unwrap(summary).total_definitions = Len(parsed_defs)

InputEnds ==
    \/ ReadEof
    \/ ReadErr
    \/ WalkEnd
    \/ WalkError

\* The same program over documents of a smaller alphabet, for the checks of
\* where a run ends.
ScanTags ==
    { [name |-> "Defs", attributes |-> EmptyMap],
      [name |-> "ThingDef", attributes |-> Map1("Name", "A")] }

ScanTexts == { [unescape_ok |-> TRUE, chunks |-> << " ", "B", " " >>] }

NextScan ==
    \/ \E readable \in BOOLEAN : WalkXmlFile(readable)
    \/ WalkSkip
    \/ WalkError
    \/ WalkEnd
    \/ \E tag \in ScanTags : ReadStart(tag)
    \/ ReadEnd
    \/ \E raw \in ScanTexts : ReadText(raw)
    \/ \E tag \in ScanTags : ReadEmpty(tag)
    \/ ReadOther
    \/ ReadEof
    \/ ReadErr
    \/ BrmIndex
    \/ BrmRefs
    \/ BrmRefsEnd
    \/ BrmParents
    \/ BrmEnd

\* The runs in which the input ends.
FairSpec == Init /\ [][NextScan]_vars /\ WF_vars(InputEnds)

\* parse_xml_file has just returned because the end of input arrived while
\* elements were still open on the stack.
EofInsideElement ==
    /\ pc = "walk"
    /\ last_event = "Eof"
    /\ element_stack # << >>

\* C11: when the end of input arrives while elements are still open on the
\* stack, parse_xml_file returns success, the step appends no record (none
\* for the unfinished elements) and parsed_defs keeps the records the file
\* completed earlier, after those it held at the call.
C11_EofInsideElementIsOk ==
    /\ [](EofInsideElement =>
            /\ last_result = "Ok"
            /\ SubSeq(parsed_defs, 1, Len(defs_at_call)) = defs_at_call)
    /\ [][(pc = "parse" /\ element_stack # << >> /\ last_event' = "Eof")
            => parsed_defs' = parsed_defs]_vars

\* C11 witness: the input ended inside the child of a second record root,
\* after the file had completed a first record.
C11_Witness ==
    /\ EofInsideElement
    /\ last_result = "Ok"
    /\ Len(element_stack) >= 2
    /\ Len(Appended) = 1

\* ------------------------------------------ the profiler over given records
\* The sizes of the record bodies given to calculate_stats: up to MaxWide
\* childless children next to a chain of up to MaxChain nested elements.
MaxWide == 22
MaxChain == 6

\* n nested li elements, the outermost at depth d.
RECURSIVE Chain(_, _)
Chain(n, d) ==
    IF n = 0 THEN << >>
    ELSE << Elem("li", EmptyMap, None, Chain(n - 1, d + 1), d) >>

\* n childless li elements, children of the record root.
Wide(n) == [k \in 1..n |-> Elem("li", EmptyMap, None, << >>, 1)]

\* n nested li elements, each one next to a childless sibling.
RECURSIVE Comb(_, _)
Comb(n, d) ==
    IF n = 0 THEN << >>
    ELSE << Elem("li", EmptyMap, None, << >>, d),
            Elem("li", EmptyMap, None, Comb(n - 1, d + 1), d) >>

StatBodies ==
    { Wide(n) \o Chain(c, 1) : n \in 0..MaxWide, c \in 0..MaxChain }
    \cup { Comb(c, 1) : c \in 1..MaxChain }

\* Elements two levels below a record's direct child, of every kind
\* extract_references_recursive tells apart.
RefLeaves ==
    { Elem(name, attributes, content, << >>, 3) :
          name \in { "defName", "li", "A", "B" },
          attributes \in { EmptyMap, Map1("Class", "Code.Comp"), Map1("Class", "A"),
                           Map1("ref", "A"), Map2("Class", "Code.Comp", "ref", "B") },
          content \in { None, Some("A"), Some("C") } }

RefTops ==
    { [name |-> name, attributes |-> attributes] :
          name \in { "defName", "li", "A", "B" },
          attributes \in { EmptyMap, Map1("Class", "Code.Comp") } }

RefSiblings ==
    { << >>, << Elem("A", Map1("ref", "A"), Some("A"), << >>, 1) >> }

RefBodies ==
    { << Elem(top.name, top.attributes, None,
              << Elem("li", EmptyMap, None, << leaf >>, 2) >>, 1) >> \o sibling :
          top \in RefTops, leaf \in RefLeaves, sibling \in RefSiblings }

ProfileRoots ==
    { Elem("ThingDef", Map1("Name", "A"), None, body, 0) :
          body \in StatBodies \cup RefBodies }

\* The state in which scan_defs_directory calls build_reference_mappings,
\* after one file that held one of the given records.
InitProfile ==
    /\ pc = "index"
    /\ parsed_defs \in { << MakeRecord(root) >> : root \in ProfileRoots }
    /\ def_name_map = EmptyMap
    /\ file_count = 1 /\ processed_count = 1 /\ error_count = 0
    /\ initial_def_count = 0
    /\ summary = Some([files_found |-> 1, files_processed |-> 1, errors |-> 0,
                       total_definitions |-> Len(parsed_defs)])
    /\ element_stack = << >>
    /\ in_defs = FALSE
    /\ last_result = "none"
    /\ last_event = "none"
    /\ i = 1
    /\ reference_count = 0
    /\ delivered = MaxInput
    /\ doc_open = << >> /\ doc_roots = << >>
    /\ defs_at_call = << >>
    /\ text_runs = << >>
    /\ last_popped = None
    /\ brm_runs = 0

SpecProfile == InitProfile /\ [][NextRefs]_vars

\* Every element of the subtrees of the given elements.
RECURSIVE Descendants(_)
Descendants(elements) ==
    UNION { { elements[k] } \cup Descendants(elements[k].children) :
                k \in DOMAIN elements }

\* The record-identity candidates of a subtree, as the claim lists them.
IdentityCandidates(elements) ==
    LET D == Descendants(elements)
    IN  { e.name : e \in { d \in D : d.name \notin { "defName", "li" } } }
        \cup { Unwrap(e.content) :
                  e \in { d \in D : IsSome(d.content) /\ d.name # "defName" } }
        \cup UNION { { e.attributes[k] : k \in DOMAIN e.attributes \ { "Class" } } :
                        e \in D }

\* The external-symbol candidates of a subtree, as the claim lists them.
SymbolCandidates(elements) ==
    UNION { { e.attributes[k] : k \in DOMAIN e.attributes \cap { "Class" } } :
                e \in Descendants(elements) }

\* Sorted and duplicate-free.
StrictlySorted(s) == \A k \in 1..(Len(s) - 1) : StrLess(s[k], s[k + 1])

\* C12: extract_references over a record's subtree returns two sorted,
\* duplicate-free sequences; the record-identity candidates are exactly the
\* tag names other than defName and li, the text contents of elements not
\* named defName and the values of attributes whose key is not Class; the
\* external-symbol list is exactly the values of the attributes keyed Class
\* (and it is what the resolver stores in code_references).
C12_ExtractedCandidates ==
    \A r \in DOMAIN parsed_defs :
        LET ex == extract_references(parsed_defs[r].elements)
        IN  /\ StrictlySorted(ex.references)
            /\ StrictlySorted(ex.code_references)
            /\ SeqSet(ex.references) = IdentityCandidates(parsed_defs[r].elements)
            /\ SeqSet(ex.code_references) = SymbolCandidates(parsed_defs[r].elements)
            /\ pc \in { "parents", "done" }
                   => parsed_defs[r].code_references = ex.code_references

\* C12 witness: a resolved record with two Class values on different levels
\* and, two levels below its direct child, a defName element with a text
\* content: neither that text nor a Class value is a candidate.
C12_Witness ==
    /\ pc = "done"
    /\ \E r \in DOMAIN parsed_defs :
        LET ex == extract_references(parsed_defs[r].elements)
        IN  /\ parsed_defs[r].code_references = << "A", "Code.Comp" >>
            /\ "A" \notin SeqSet(ex.references)
            /\ ex.references = << "B" >>
            /\ \E d \in Descendants(parsed_defs[r].elements) :
                   d.name = "defName" /\ d.content = Some("A")

\* The positions of all descendant elements: for each, the path of child
\* indices that leads to it from the record root.
RECURSIVE Paths(_)
Paths(elements) ==
    UNION { { << k >> } \cup { << k >> \o p : p \in Paths(elements[k].children) } :
                k \in DOMAIN elements }

\* The number of elements on the longest path from a direct child downward.
LongestPath(elements) ==
    LET lens == { Len(p) : p \in Paths(elements) }
    IN  CHOOSE n \in lens : \A m \in lens : m <= n

\* C13: a record has no stats exactly when it has no children; otherwise
\* element_count is the number of all descendant elements, max_depth the
\* number of elements on the longest path from a direct child down to a
\* childless element, and has_complex_structure is true iff element_count
\* exceeds 20 or max_depth exceeds 4.
C13_StatsOfRecord ==
    \A r \in DOMAIN parsed_defs :
        LET els == parsed_defs[r].elements
            st == parsed_defs[r].stats
        IN  /\ st = calculate_stats(els)
            /\ (st = None) <=> (els = << >>)
            /\ els # << >> =>
                  /\ Unwrap(st).element_count = Cardinality(Paths(els))
                  /\ Unwrap(st).max_depth = LongestPath(els)
                  /\ Unwrap(st).has_complex_structure
                        <=> (Cardinality(Paths(els)) > 20 \/ LongestPath(els) > 4)

\* C13 witness: a record with 25 descendant elements, none deeper than
\* three levels, is classified as complex.
C13_Witness ==
    /\ pc = "done"
    /\ \E r \in DOMAIN parsed_defs :
           parsed_defs[r].stats = Some([element_count |-> 25, max_depth |-> 3,
                                        has_complex_structure |-> TRUE])

\* Record r's references_in holds r's own identity.
OwnInIncoming(r) == InSeq(parsed_defs[r].def_name, parsed_defs[r].references_in)

\* Some record of identity n declares n as its ParentName.
SelfParented(n) ==
    \E c \in DOMAIN parsed_defs :
        /\ parsed_defs[c].def_name = n
        /\ parsed_defs[c].parent_name = Some(n)

\* C14: after build_reference_mappings a record's references_in holds the
\* record's own identity if and only if some record of that identity declares
\* that identity as its ParentName; the body references never put it there
\* (no record holds it during or after the second pass, before the parent
\* pass has started).
C14_OwnIdentityOnlyByParent ==
    /\ pc = "done" =>
          \A r \in DOMAIN parsed_defs :
              OwnInIncoming(r) <=> SelfParented(parsed_defs[r].def_name)
    /\ (pc = "refs" \/ (pc = "parents" /\ i = 1)) =>
          \A r \in DOMAIN parsed_defs : ~OwnInIncoming(r)

\* C14 witness: a record whose body names its own identity and that declares
\* no parent holds its own identity in references_in, put there by another
\* record of the same identity that declares it as ParentName.
C14_Witness ==
    /\ pc = "done"
    /\ \E r \in DOMAIN parsed_defs :
        /\ OwnInIncoming(r)
        /\ parsed_defs[r].parent_name = None
        /\ parsed_defs[r].def_name
             \in SeqSet(extract_references(parsed_defs[r].elements).references)

\* The step in which the reader delivers an empty-element tag: the document
\* gets a node while no tag is opened or closed.
EmptyTagStep ==
    /\ pc = "parse"
    /\ Len(doc_open') = Len(doc_open)
    /\ << doc_open', doc_roots' >> # << doc_open, doc_roots >>

\* C15: an empty-element tag event inside the container leaves the element
\* stack, the in-container flag and parsed_defs unchanged: the tag becomes
\* neither a child of the enclosing element nor, at top level, a record.
C15_EmptyTagChangesNothing ==
    [][(EmptyTagStep /\ in_defs)
         => UNCHANGED << element_stack, in_defs, parsed_defs >>]_vars

\* C15 witness: the container holds a self-closing tag at top level and an
\* open record root that holds another one; no record was appended and the
\* root on the stack has no child.
C15_Witness ==
    /\ pc = "parse"
    /\ in_defs
    /\ Len(doc_open) = 2
    /\ doc_open[1].name = "Defs"
    /\ Len(doc_open[1].kids) = 1
    /\ Len(doc_open[2].kids) = 1
    /\ Appended = << >>
    /\ Len(element_stack) = 1
    /\ element_stack[1].children = << >>

====
